---- MODULE Spec2Model ----
(***************************************************************************)
(* Model of lib/rpc.js: the host-side Server (object registry and message  *)
(* dispatcher) and the Client injected into the page (request/response     *)
(* correlation, proxies and their event listeners), joined by two FIFO     *)
(* channels: rpcSend (page -> host) and page.evaluate(dispatchMessage)     *)
(* (host -> page).                                                         *)
(***************************************************************************)
EXTENDS Integers, Sequences, FiniteSets, TLC

\* ------------------------------------------------------------------ bounds
MaxId == 3          \* requests the page issues (Client.lastId_ stays <= MaxId)
MaxPageCalls == 6   \* calls page code makes in SpecEvents: requests and on/off
MaxHostEmits == 1   \* emit calls made by host code outside a method call

\* ------------------------------------------------------- values and strings
\* JavaScript strings that are concatenated or compared character by
\* character are sequences of one-character strings.
Undefined == "undefined"
Null == "null"

CounterName == <<"C", "t", "r">>       \* Counter.prototype.constructor.name
SvcName == <<"s", "#", "1">>           \* a service name; any string is allowed
Names == {CounterName, SvcName}

DigitChars == <<"0", "1", "2", "3", "4", "5", "6", "7", "8", "9">>

\* String(n) for a non-negative integer, as a template literal formats it.
RECURSIVE NumberToString(_)
NumberToString(n) ==
    IF n < 10 THEN <<DigitChars[n + 1]>>
    ELSE NumberToString(n \div 10) \o <<DigitChars[(n % 10) + 1]>>

\* `create#${name}#${n}#`
CreateObjectId(name, n) ==
    <<"c", "r", "e", "a", "t", "e", "#">> \o name \o <<"#">> \o NumberToString(n) \o <<"#">>

\* `lookup#${name}#${n}#`
LookupObjectId(name, n) ==
    <<"l", "o", "o", "k", "u", "p", "#">> \o name \o <<"#">> \o NumberToString(n) \o <<"#">>

\* ------------------------------------------------- the exposed host classes
\* The prototype of the class given to exposeFactory and of the object given
\* to exposeObject: own properties in insertion order, with the kind of value
\* each holds.  "sync" returns at once, "async" returns a promise that
\* settles in a later task.
CounterProto == <<
    [name |-> "constructor", type |-> "function"],
    [name |-> "increment",   type |-> "function"],
    [name |-> "slow",        type |-> "function"],
    [name |-> "version",     type |-> "number"],
    [name |-> "fail",        type |-> "function"] >>

SvcProto == <<
    [name |-> "constructor", type |-> "function"],
    [name |-> "echo",        type |-> "function"],
    [name |-> "failLater",   type |-> "function"],
    [name |-> "dispose",     type |-> "function"] >>

ProtoOf(class) == IF class = "Counter" THEN CounterProto ELSE SvcProto

EchoArgs == {7, 8}

\* Server.describe_(o): the callable own properties of o.__proto__, in order,
\* without the constructor.
RECURSIVE describe_(_)
describe_(proto) ==
    IF proto = <<>> THEN <<>>
    ELSE LET p == Head(proto)
             rest == describe_(Tail(proto))
         IN IF p.name = "constructor" THEN rest
            ELSE IF p.type = "function" THEN <<p.name>> \o rest
            ELSE rest

Range(s) == {s[i] : i \in 1..Len(s)}

\* typeof proto[name] === 'function' for a property reached through object[name]
IsCallable(class, method) ==
    \E i \in 1..Len(ProtoOf(class)) :
        ProtoOf(class)[i].name = method /\ ProtoOf(class)[i].type = "function"


\* A number as a JavaScript value carried in `result`.
Num(n) == [number |-> n]

\* The object given to exposeObject, and `undefined` where an object is expected.
SvcObject == 0
NoObject == -1

Has(message, field) == field \in DOMAIN message

\* ------------------------------------------------------------------- state
VARIABLES
    \* Server
    page_,          \* Null until init(page)
    factories_,     \* set of exposed constructor names (name -> class Counter)
    services_,      \* name -> object
    lastObjectId_,
    objects_,       \* ObjectId -> object (NoObject where undefined was stored)
    heap,           \* host objects: object -> [class, count, emit]
    running,        \* invocations whose awaited promise has not settled
    rejected,       \* onMessage_ calls whose promise rejected: {[id, error]}
    minted,         \* every ObjectId formatted so far, in order
    hostEmits,      \* emit calls made by host code so far
    \* channels
    rpcSent,        \* every message passed to rpcSend, in order
    handled,        \* how many of them Server.onMessage_ has taken
    outbox,         \* every message passed to Server.sendMessage_, in order
    dispatched,     \* how many of them dispatchMessage has taken
    \* Client
    lastId_,
    callbacks_,     \* set of ids with a fulfil callback
    promises,       \* id -> [then, state, value]: the promise sendMessage_ returned
    clientObjects_, \* keys of Client.objects_ (each maps to proxies[key])
    proxies,        \* ObjectId -> [methods, listeners_]: every proxy wrap_ built
    thrown,         \* errors thrown out of dispatchMessage
    listenerOps,    \* on/off calls made so far
    fanout,         \* <<>> or <<the for-loop of emit_ in progress>>
    trace           \* what page code observed, in order

serverVars == <<page_, factories_, services_, lastObjectId_, objects_, heap, running,
                rejected, minted, hostEmits>>
channelVars == <<rpcSent, handled, outbox, dispatched>>
clientVars == <<lastId_, callbacks_, promises, clientObjects_, proxies, thrown,
                listenerOps, fanout, trace>>
vars == <<serverVars, channelVars, clientVars>>

Events == {"changed", "other"}
Handlers == {"h1", "h2"}

\* Server constructor, Client constructor; the service object already exists.
Init ==
    /\ page_ = Null
    /\ factories_ = {}
    /\ services_ = <<>>
    /\ lastObjectId_ = 0
    /\ objects_ = <<>>
    /\ heap = (SvcObject :> [class |-> "Svc", count |-> 0, emit |-> <<>>])
    /\ running = {}
    /\ rejected = {}
    /\ minted = <<>>
    /\ hostEmits = 0
    /\ rpcSent = <<>>
    /\ handled = 0
    /\ outbox = <<>>
    /\ dispatched = 0
    /\ lastId_ = 0
    /\ callbacks_ = {}
    /\ promises = <<>>
    /\ clientObjects_ = {}
    /\ proxies = <<>>
    /\ thrown = {}
    /\ listenerOps = 0
    /\ fanout = <<>>
    /\ trace = <<>>

\* ------------------------------------------------------------------ Server
\* Server.exposeFactory(Counter), before init
exposeFactory ==
    /\ page_ = Null
    /\ CounterName \notin factories_
    /\ factories_' = factories_ \cup {CounterName}
    /\ UNCHANGED <<page_, services_, lastObjectId_, objects_, heap, running, rejected,
                   minted, hostEmits, channelVars, clientVars>>

\* Server.exposeObject(SvcName, svc), before init
exposeObject ==
    /\ page_ = Null
    /\ SvcName \notin DOMAIN services_
    /\ services_' = services_ @@ (SvcName :> SvcObject)
    /\ UNCHANGED <<page_, factories_, lastObjectId_, objects_, heap, running, rejected,
                   minted, hostEmits, channelVars, clientVars>>

\* Server.init(page): rpcSend is exposed and the client installed
init ==
    /\ page_ = Null
    /\ page_' = "page"
    /\ UNCHANGED <<factories_, services_, lastObjectId_, objects_, heap, running, rejected,
                   minted, hostEmits, channelVars, clientVars>>

\* Server.sendMessage_(message): page.evaluate(dispatchMessage, message)
sendMessage_(box, message) == Append(box, message)

\* object.emit(method, ...args) on a host object: the arrow function installed
\* by onMessage_ sends {objectId, method, args} with the objectId it closed
\* over; an object without it keeps the emit of its class, which sends nothing.
emit(box, object, method, args) ==
    IF heap[object].emit = <<>> THEN box
    ELSE sendMessage_(box, [objectId |-> heap[object].emit, method |-> method, args |-> args])

\* A handler that returns after the call without sending the reply.
callWithoutReply(box, object, count, reply) ==
    emit(box, object, "changed", <<count>>)

\* The reply overtaking the emission made during the call.
replyThenEmit(box, object, count, reply) ==
    emit(sendMessage_(box, reply), object, "changed", <<count>>)

\* `const result = await object[message.method](...)` for a method that calls
\* this.emit('changed', count) and returns count, then sendMessage_(reply): the
\* emission is passed to page.evaluate before the reply is.
callThenReply(box, object, count, reply) ==
    sendMessage_(emit(box, object, "changed", <<count>>), reply)

\* A counter derived from the registry size, which hands a number out again
\* once an object has been disposed.
NextObjectIdReused(last) == Cardinality(DOMAIN objects_) + 1

\* ++this.lastObjectId_
NextObjectId(last) == last + 1

\* The next message rpcSend hands to onMessage_.
Inbound == rpcSent[handled + 1]

\* onMessage_, message.create: new c(), mint the id, register, hook emit, reply
onMessage_create ==
    /\ page_ # Null /\ handled < Len(rpcSent)
    /\ Has(Inbound, "create")
    /\ handled' = handled + 1
    /\ IF Inbound.create \notin factories_
       THEN \* c is undefined: `new c()` throws before anything is changed
            /\ rejected' = rejected \cup {[id |-> Inbound.id, error |-> "TypeError"]}
            /\ UNCHANGED <<lastObjectId_, objects_, heap, minted, outbox>>
       ELSE LET object == Cardinality(DOMAIN heap)
                objectId == CreateObjectId(Inbound.create, NextObjectId(lastObjectId_))
            IN /\ lastObjectId_' = NextObjectId(lastObjectId_)
               /\ minted' = Append(minted, objectId)
               /\ objects_' = [o \in DOMAIN objects_ \cup {objectId} |->
                                 IF o = objectId THEN object ELSE objects_[o]]
               /\ heap' = heap @@ (object :> [class |-> "Counter", count |-> 0,
                                              emit |-> objectId])
               /\ outbox' = sendMessage_(outbox,
                     [id |-> Inbound.id,
                      result |-> [methods |-> describe_(ProtoOf("Counter")),
                                  objectId |-> objectId]])
               /\ UNCHANGED rejected
    /\ UNCHANGED <<page_, factories_, services_, running, hostEmits, rpcSent, dispatched,
                   clientVars>>

\* onMessage_, message.lookup: services_.get, mint the id, register, hook emit, reply
onMessage_lookup ==
    /\ page_ # Null /\ handled < Len(rpcSent)
    /\ ~Has(Inbound, "create") /\ Has(Inbound, "lookup")
    /\ handled' = handled + 1
    /\ LET object == IF Inbound.lookup \in DOMAIN services_
                     THEN services_[Inbound.lookup] ELSE NoObject
           objectId == LookupObjectId(Inbound.lookup, NextObjectId(lastObjectId_))
       IN /\ lastObjectId_' = NextObjectId(lastObjectId_)
          /\ minted' = Append(minted, objectId)
          /\ objects_' = [o \in DOMAIN objects_ \cup {objectId} |->
                            IF o = objectId THEN object ELSE objects_[o]]
          /\ IF object = NoObject
             THEN \* `object.emit = ...` throws on undefined
                  /\ rejected' = rejected \cup {[id |-> Inbound.id, error |-> "TypeError"]}
                  /\ UNCHANGED <<heap, outbox>>
             ELSE /\ heap' = [heap EXCEPT ![object].emit = objectId]
                  /\ outbox' = sendMessage_(outbox,
                        [id |-> Inbound.id,
                         result |-> [methods |-> describe_(ProtoOf(heap[object].class)),
                                     objectId |-> objectId]])
                  /\ UNCHANGED rejected
    /\ UNCHANGED <<page_, factories_, services_, running, hostEmits, rpcSent, dispatched,
                   clientVars>>

\* A removal that empties the registry.
Clear(map, key) == <<>>

\* this.objects_.delete(objectId)
Delete(map, key) == [k \in DOMAIN map \ {key} |-> map[k]]

\* onMessage_, message.dispose
onMessage_dispose ==
    /\ page_ # Null /\ handled < Len(rpcSent)
    /\ ~Has(Inbound, "create") /\ ~Has(Inbound, "lookup") /\ Has(Inbound, "dispose")
    /\ handled' = handled + 1
    /\ objects_' = Delete(objects_, Inbound.objectId)
    /\ UNCHANGED <<page_, factories_, services_, lastObjectId_, heap, running, rejected,
                   minted, hostEmits, rpcSent, outbox, dispatched, clientVars>>


\* A lookup that ignores the key and answers with whatever is registered.
GetAny(map, key) == IF DOMAIN map = {} THEN NoObject ELSE map[CHOOSE k \in DOMAIN map : TRUE]

\* this.objects_.get(message.objectId)
Get(map, key) == IF key \in DOMAIN map THEN map[key] ELSE NoObject

\* Host methods that return a promise settling in a later task.
AsyncMethods == {"slow", "failLater"}

\* onMessage_, default case: look the object up, call the method, await, reply.
\* A synchronous method returns in the same task, so its emissions and the
\* reply are sent before the next inbound message is taken.
onMessage_invoke ==
    /\ page_ # Null /\ handled < Len(rpcSent)
    /\ ~Has(Inbound, "create") /\ ~Has(Inbound, "lookup") /\ ~Has(Inbound, "dispose")
    /\ handled' = handled + 1
    /\ LET object == Get(objects_, Inbound.objectId)
           method == Inbound.method
           reply(result) == [id |-> Inbound.id, objectId |-> Inbound.objectId,
                             result |-> result]
       IN IF object = NoObject \/ ~IsCallable(heap[object].class, method)
          THEN \* object[method] on undefined, or a call of a non-function
               /\ rejected' = rejected \cup {[id |-> Inbound.id, error |-> "TypeError"]}
               /\ UNCHANGED <<heap, running, outbox>>
          ELSE IF method = "fail"
          THEN /\ rejected' = rejected \cup {[id |-> Inbound.id, error |-> "MethodError"]}
               /\ UNCHANGED <<heap, running, outbox>>
          ELSE IF method \in AsyncMethods
          THEN /\ running' = running \cup {[id |-> Inbound.id, objectId |-> Inbound.objectId,
                                            object |-> object, method |-> method]}
               /\ UNCHANGED <<heap, rejected, outbox>>
          ELSE IF method = "increment"
          THEN LET count == heap[object].count + 1
               IN /\ heap' = [heap EXCEPT ![object].count = count]
                  /\ outbox' = callThenReply(outbox, object, count, reply(Num(count)))
                  /\ UNCHANGED <<running, rejected>>
          ELSE \* echo(a) returns a
               /\ outbox' = sendMessage_(outbox, reply(Num(Inbound.args[1])))
               /\ UNCHANGED <<heap, running, rejected>>
    /\ UNCHANGED <<page_, factories_, services_, lastObjectId_, objects_, minted, hostEmits,
                   rpcSent, dispatched, clientVars>>

\* onMessage_ resumes after `await`: the promise of an asynchronous method
\* settled.  slow() increments, emits and fulfils; failLater() rejects.
onMessage_resume ==
    \E call \in running :
        /\ running' = running \ {call}
        /\ IF call.method = "failLater"
           THEN /\ rejected' = rejected \cup {[id |-> call.id, error |-> "MethodError"]}
                /\ UNCHANGED <<heap, outbox>>
           ELSE LET count == heap[call.object].count + 1
                IN /\ heap' = [heap EXCEPT ![call.object].count = count]
                   /\ outbox' = callThenReply(outbox, call.object, count,
                                   [id |-> call.id, objectId |-> call.objectId,
                                    result |-> Num(count)])
                   /\ UNCHANGED rejected
        /\ UNCHANGED <<page_, factories_, services_, lastObjectId_, objects_, minted,
                       hostEmits, rpcSent, handled, dispatched, clientVars>>

HostEmitArg == 9

\* Host code calls emit on the service object it exposed.
hostEmit ==
    /\ hostEmits < MaxHostEmits
    /\ heap[SvcObject].emit # <<>>
    /\ hostEmits' = hostEmits + 1
    /\ \E event \in Events :
          outbox' = emit(outbox, SvcObject, event, <<HostEmitArg>>)
    /\ UNCHANGED <<page_, factories_, services_, lastObjectId_, objects_, heap, running,
                   rejected, minted, rpcSent, handled, dispatched, clientVars>>


\* ------------------------------------------------------------------ Client
\* Client.sendMessage_(message): take the next id, keep the fulfil callback of
\* a new promise under it, rpcSend.  `then` is what the caller does with the
\* promise: "wrap" (create/lookup await it and call wrap_), "call" (a stub
\* returns it to page code), "none" (dispose drops it).
Client_sendMessage_(message, then) ==
    LET id == lastId_ + 1
    IN /\ page_ # Null /\ fanout = <<>>
       /\ lastId_' = id
       /\ callbacks_' = callbacks_ \cup {id}
       /\ promises' = Append(promises, [then |-> then, settled |-> <<>>])
       /\ rpcSent' = Append(rpcSent, [id |-> id] @@ message)

\* rpc.create(service), for a service name page code picks among `names`
Create(names) ==
    \E service \in names :
        /\ Client_sendMessage_([create |-> service], "wrap")
        /\ UNCHANGED <<serverVars, handled, outbox, dispatched, clientObjects_, proxies,
                       thrown, listenerOps, fanout, trace>>

create == lastId_ < MaxId /\ Create(Names)

\* rpc.lookup(name), for a name page code picks among `names`
Lookup(names) ==
    \E name \in names :
        /\ Client_sendMessage_([lookup |-> name], "wrap")
        /\ UNCHANGED <<serverVars, handled, outbox, dispatched, clientObjects_, proxies,
                       thrown, listenerOps, fanout, trace>>

lookup == lastId_ < MaxId /\ Lookup(Names)

\* The argument lists page code passes to a stub.
ArgsFor(method) == IF method = "echo" THEN {<<a>> : a \in EchoArgs} ELSE {<<>>}

\* proxy[method](...args), on a proxy page code was given (disposed or not)
\* among `held`, for a stub page code picks among `methods`
StubOn(held, methods) ==
    \E objectId \in DOMAIN proxies \cap held :
      \E method \in proxies[objectId].stubs \cap methods :
        \E args \in ArgsFor(method) :
          /\ Client_sendMessage_([method |-> method, objectId |-> objectId, args |-> args],
                                 "call")
          /\ UNCHANGED <<serverVars, handled, outbox, dispatched, clientObjects_, proxies,
                         thrown, listenerOps, fanout, trace>>

Stub(methods) == StubOn(DOMAIN proxies, methods)

stub == lastId_ < MaxId /\ Stub({"increment", "slow", "fail", "echo", "failLater"})

\* A dispose that sends the message and leaves the proxy in the client
\* registry until the host has acknowledged.
disposeAwaitingReply ==
    \E objectId \in DOMAIN proxies :
        /\ lastId_ < MaxId
        /\ Client_sendMessage_([dispose |-> "dispose", objectId |-> objectId], "none")
        /\ UNCHANGED <<serverVars, handled, outbox, dispatched, clientObjects_, proxies,
                       thrown, listenerOps, fanout, trace>>

\* proxy.dispose()
dispose ==
    \E objectId \in DOMAIN proxies :
        /\ lastId_ < MaxId
        /\ Client_sendMessage_([dispose |-> "dispose", objectId |-> objectId], "none")
        /\ clientObjects_' = clientObjects_ \ {objectId}
        /\ UNCHANGED <<serverVars, handled, outbox, dispatched, proxies, thrown,
                       listenerOps, fanout, trace>>

\* EventEmitter.on(event, handler) on the listeners_ map of one proxy
EventEmitter_on(listeners_, event, handler) ==
    IF event \in DOMAIN listeners_
    THEN [listeners_ EXCEPT ![event] = Append(@, handler)]
    ELSE listeners_ @@ (event :> <<handler>>)

\* EventEmitter.off(event, handler): the filtered array is assigned to the
\* local variable `listeners` only; the map keeps the array it had.
EventEmitter_off(listeners_, event, handler) ==
    IF event \notin DOMAIN listeners_
    THEN listeners_
    ELSE LET listeners == SelectSeq(listeners_[event], LAMBDA a : a # handler)
         IN listeners_

\* One call of proxy.on or proxy.off by page code, applied to the proxy table
\* and noted in the trace.
ListenerCall(op, objectId, event, handler) ==
    /\ lastId_ + listenerOps < MaxPageCalls
    /\ listenerOps' = listenerOps + 1
    /\ proxies' = [proxies EXCEPT ![objectId].listeners_ =
                      IF op = "on" THEN EventEmitter_on(@, event, handler)
                      ELSE EventEmitter_off(@, event, handler)]

\* proxy.on(event, handler) called by page code outside a fan-out, on a proxy
\* among `held`
On(held) ==
    /\ fanout = <<>>
    /\ \E objectId \in DOMAIN proxies \cap held, event \in Events, handler \in Handlers :
          /\ ListenerCall("on", objectId, event, handler)
          /\ trace' = Append(trace, [type |-> "on", objectId |-> objectId,
                                     event |-> event, handler |-> handler])
    /\ UNCHANGED <<serverVars, channelVars, lastId_, callbacks_, promises, clientObjects_,
                   thrown, fanout>>

\* proxy.off(event, handler) called by page code outside a fan-out, on a
\* proxy among `held`
Off(held) ==
    /\ fanout = <<>>
    /\ \E objectId \in DOMAIN proxies \cap held, event \in Events, handler \in Handlers :
          /\ ListenerCall("off", objectId, event, handler)
          /\ trace' = Append(trace, [type |-> "off", objectId |-> objectId,
                                     event |-> event, handler |-> handler])
    /\ UNCHANGED <<serverVars, channelVars, lastId_, callbacks_, promises, clientObjects_,
                   thrown, fanout>>


\* The next message page.evaluate hands to dispatchMessage.
Outbound == outbox[dispatched + 1]

\* Correlation by arrival position: the oldest callback not yet called.
CallbackInArrivalOrder(message) ==
    LET waiting == {i \in callbacks_ : promises[i].settled = <<>>}
    IN IF waiting = {} THEN message.id
       ELSE CHOOSE i \in waiting : \A j \in waiting : i <= j

\* this.callbacks_.get(message.id): the id whose fulfil callback is called.
CallbackFor(message) == message.id

\* The properties of a proxy that hold a stub once wrap_ has returned: one per
\* name in `methods`, except that `object.dispose = async () => ...` is
\* assigned after the loop and replaces a stub of that name.
Stubs(methods) == Range(methods) \ {"dispose"}

\* Client.wrap_(objectId, methods) as the continuation of create/lookup: a
\* new EventEmitter is stored under objectId and gets one stub per method.
\* A result without these fields gives wrap_(undefined, undefined), which
\* stores the key undefined (written <<>>) and throws in its for-of loop.
wrap_(result) ==
    IF Has(result, "methods")
    THEN /\ clientObjects_' = clientObjects_ \cup {result.objectId}
         /\ proxies' = [o \in DOMAIN proxies \cup {result.objectId} |->
                          IF o = result.objectId
                          THEN [methods |-> result.methods,
                                stubs |-> Stubs(result.methods), listeners_ |-> <<>>]
                          ELSE proxies[o]]
         /\ UNCHANGED thrown
    ELSE /\ clientObjects_' = clientObjects_ \cup {<<>>}
         /\ thrown' = thrown \cup {[error |-> "TypeError", in |-> "wrap_"]}
         /\ UNCHANGED proxies

\* fulfil(result) of the promise kept under id: a promise settles once; the
\* awaiting caller then continues.
fulfil(id, result) ==
    IF promises[id].settled # <<>>
    THEN UNCHANGED <<promises, trace, clientObjects_, proxies, thrown>>
    ELSE /\ promises' = [promises EXCEPT ![id].settled = <<result>>]
         /\ trace' = Append(trace, [type |-> "resolved", id |-> id, value |-> result])
         /\ IF promises[id].then = "wrap"
            THEN wrap_(result)
            ELSE UNCHANGED <<clientObjects_, proxies, thrown>>

\* dispatchMessage = Client.onMessage_(message).  The trace notes the arrival
\* of an event message by its position in the outbox.
Client_onMessage_ ==
    /\ fanout = <<>>
    /\ dispatched < Len(outbox)
    /\ dispatched' = dispatched + 1
    /\ IF Has(Outbound, "id")
       THEN /\ IF CallbackFor(Outbound) \notin callbacks_
               THEN \* undefined is not a function
                    /\ thrown' = thrown \cup {[error |-> "TypeError", in |-> "onMessage_"]}
                    /\ UNCHANGED <<promises, trace, clientObjects_, proxies>>
               ELSE fulfil(CallbackFor(Outbound), Outbound.result)
            /\ UNCHANGED fanout
       ELSE /\ trace' = Append(trace, [type |-> "event", message |-> dispatched + 1])
            /\ UNCHANGED <<promises, clientObjects_, proxies>>
            /\ IF Outbound.objectId \notin clientObjects_
               THEN \* this.objects_.get(...) is undefined: reading emit_ throws
                    /\ thrown' = thrown \cup {[error |-> "TypeError", in |-> "onMessage_"]}
                    /\ UNCHANGED fanout
               ELSE IF Outbound.method \notin DOMAIN proxies[Outbound.objectId].listeners_
               THEN \* emit_: no list for this event
                    UNCHANGED <<thrown, fanout>>
               ELSE \* emit_ enters its for-of loop over the list
                    /\ fanout' = <<[message |-> dispatched + 1,
                                    objectId |-> Outbound.objectId,
                                    event |-> Outbound.method,
                                    args |-> Outbound.args, i |-> 1]>>
                    /\ UNCHANGED thrown
    /\ UNCHANGED <<serverVars, rpcSent, handled, outbox, lastId_, callbacks_, listenerOps>>

\* A loop bound that is off by one and leaves the last listener out.
IteratorDoneEarly(i, listeners) == i >= Len(listeners)

\* The array iterator of `for (const listener of listeners)`: it reads the
\* array's length anew at each step, so it is done when the index has passed
\* the length the array has then.
IteratorDone(i, listeners) == i > Len(listeners)

\* EventEmitter.emit_, one turn of the loop: listener(...args).  The listener
\* is page code: it returns, or first calls on or off on the emitting proxy.
emit_ ==
    /\ fanout # <<>>
    /\ LET f == fanout[1]
           handler == proxies[f.objectId].listeners_[f.event][f.i]
           invoked == Append(trace, [type |-> "listener", message |-> f.message,
                                     objectId |-> f.objectId, event |-> f.event,
                                     handler |-> handler, args |-> f.args])
       IN /\ \/ /\ trace' = invoked
                /\ UNCHANGED <<proxies, listenerOps>>
             \/ \E op \in {"on", "off"}, event \in Events, h \in Handlers :
                   /\ ListenerCall(op, f.objectId, event, h)
                   /\ trace' = Append(invoked, [type |-> op, objectId |-> f.objectId,
                                                event |-> event, handler |-> h])
          /\ fanout' = IF IteratorDone(f.i + 1, proxies'[f.objectId].listeners_[f.event])
                       THEN <<>>
                       ELSE <<[f EXCEPT !.i = f.i + 1]>>
    /\ UNCHANGED <<serverVars, channelVars, lastId_, callbacks_, promises, clientObjects_,
                   thrown>>

\* --------------------------------------------------------- specifications
\* The whole bridge, page code registering no listeners.
Next ==
    \/ exposeFactory
    \/ exposeObject
    \/ init
    \/ onMessage_create
    \/ onMessage_lookup
    \/ onMessage_dispose
    \/ onMessage_invoke
    \/ onMessage_resume
    \/ hostEmit
    \/ create
    \/ lookup
    \/ stub
    \/ dispose
    \/ Client_onMessage_

Spec == Init /\ [][Next]_vars

\* Scheduling.  Node runs every task it has queued: each rpcSend call reaches
\* onMessage_, and the promise of an asynchronous method that completes
\* settles; the page runs every dispatchMessage that page.evaluate was given.
\* What page code and host code do next is up to them.
Fairness ==
    /\ WF_vars(onMessage_create)
    /\ WF_vars(onMessage_lookup)
    /\ WF_vars(onMessage_dispose)
    /\ WF_vars(onMessage_invoke)
    /\ WF_vars(onMessage_resume)
    /\ WF_vars(Client_onMessage_)

\* Liveness.  The state after exposeFactory(Counter), exposeObject(SvcName,
\* svc) and init(page); from there page code issues requests and disposes
\* proxies, and the host only answers.
InitLive ==
    /\ page_ = "page"
    /\ factories_ = {CounterName}
    /\ services_ = (SvcName :> SvcObject)
    /\ lastObjectId_ = 0
    /\ objects_ = <<>>
    /\ heap = (SvcObject :> [class |-> "Svc", count |-> 0, emit |-> <<>>])
    /\ running = {}
    /\ rejected = {}
    /\ minted = <<>>
    /\ hostEmits = 0
    /\ rpcSent = <<>>
    /\ handled = 0
    /\ outbox = <<>>
    /\ dispatched = 0
    /\ lastId_ = 0
    /\ callbacks_ = {}
    /\ promises = <<>>
    /\ clientObjects_ = {}
    /\ proxies = <<>>
    /\ thrown = {}
    /\ listenerOps = 0
    /\ fanout = <<>>
    /\ trace = <<>>

NextLive ==
    \/ onMessage_create
    \/ onMessage_lookup
    \/ onMessage_dispose
    \/ onMessage_invoke
    \/ onMessage_resume
    \/ create
    \/ lookup
    \/ stub
    \/ dispose
    \/ Client_onMessage_

SpecLive == InitLive /\ [][NextLive]_vars /\ Fairness

\* Events.  The state after exposeFactory(Counter), init, and two calls of
\* rpc.create("Counter") that were answered and wrapped: page code holds two
\* Counter proxies.  It then calls the methods that emit, and registers and
\* removes listeners.
FirstProxy == CreateObjectId(CounterName, 1)
SecondProxy == CreateObjectId(CounterName, 2)
CreateReply(id, objectId) ==
    [id |-> id, result |-> [methods |-> describe_(CounterProto), objectId |-> objectId]]

InitEvents ==
    /\ page_ = "page"
    /\ factories_ = {CounterName}
    /\ services_ = <<>>
    /\ lastObjectId_ = 2
    /\ objects_ = (FirstProxy :> 1) @@ (SecondProxy :> 2)
    /\ heap = (SvcObject :> [class |-> "Svc", count |-> 0, emit |-> <<>>])
              @@ (1 :> [class |-> "Counter", count |-> 0, emit |-> FirstProxy])
              @@ (2 :> [class |-> "Counter", count |-> 0, emit |-> SecondProxy])
    /\ running = {}
    /\ rejected = {}
    /\ minted = <<FirstProxy, SecondProxy>>
    /\ hostEmits = 0
    /\ rpcSent = <<[id |-> 1, create |-> CounterName], [id |-> 2, create |-> CounterName]>>
    /\ handled = 2
    /\ outbox = <<CreateReply(1, FirstProxy), CreateReply(2, SecondProxy)>>
    /\ dispatched = 2
    /\ lastId_ = 2
    /\ callbacks_ = {1, 2}
    /\ promises = <<[then |-> "wrap", settled |-> <<CreateReply(1, FirstProxy).result>>],
                    [then |-> "wrap", settled |-> <<CreateReply(2, SecondProxy).result>>]>>
    /\ clientObjects_ = {FirstProxy, SecondProxy}
    /\ proxies = [o \in {FirstProxy, SecondProxy} |->
                     [methods |-> describe_(CounterProto),
                      stubs |-> Stubs(describe_(CounterProto)), listeners_ |-> <<>>]]
    /\ thrown = {}
    /\ listenerOps = 0
    /\ fanout = <<>>
    /\ trace = <<[type |-> "resolved", id |-> 1, value |-> CreateReply(1, FirstProxy).result],
                 [type |-> "resolved", id |-> 2, value |-> CreateReply(2, SecondProxy).result]>>

\* page code calls increment() or slow() on the first proxy, increment() on
\* the second
callEmitting ==
    /\ lastId_ + listenerOps < MaxPageCalls
    /\ \/ StubOn({FirstProxy}, {"increment", "slow"})
       \/ StubOn({SecondProxy}, {"increment"})

\* page code registers and removes listeners on the first proxy
on == On({FirstProxy})
off == Off({FirstProxy})

NextEvents ==
    \/ onMessage_invoke
    \/ onMessage_resume
    \/ callEmitting
    \/ on
    \/ off
    \/ Client_onMessage_
    \/ emit_

SpecEvents == InitEvents /\ [][NextEvents]_vars


\* ------------------------------------------------------------- properties
\* Positions of a sequence whose entry satisfies a test.
Positions(s, Test(_)) == {p \in DOMAIN s : Test(s[p])}

IsResolved(e) == e.type = "resolved"
IsReply(m) == Has(m, "id")

\* The replies dispatchMessage has taken so far.
DispatchedReplies == {k \in 1..dispatched : IsReply(outbox[k])}

\* The replies the server sent for request id.
RepliesTo(id) == {k \in DOMAIN outbox : IsReply(outbox[k]) /\ outbox[k].id = id}

\* Is `prefix` the beginning of the string s?
StartsWith(s, prefix) == Len(s) >= Len(prefix) /\ SubSeq(s, 1, Len(prefix)) = prefix

\* What the answer to a request must be, read off the request alone.
AnswersRequest(request, result) ==
    IF Has(request, "dispose") THEN FALSE
    ELSE IF Has(request, "create")
    THEN /\ Has(result, "objectId")
         /\ StartsWith(result.objectId,
                       <<"c", "r", "e", "a", "t", "e", "#">> \o request.create \o <<"#">>)
    ELSE IF Has(request, "lookup")
    THEN /\ Has(result, "objectId")
         /\ StartsWith(result.objectId,
                       <<"l", "o", "o", "k", "u", "p", "#">> \o request.lookup \o <<"#">>)
    ELSE IF request.method = "echo"
    THEN result = Num(request.args[1])
    ELSE Has(result, "number")

\* C1: request/response correlation.  Whatever the order in which replies
\* reach dispatchMessage, the caller of request id is resolved exactly once for
\* a dispatched reply with that id, with the result that reply carries, and
\* that result answers the request sent under that id; no caller is resolved
\* without a dispatched reply of its own id.
C1_Correlation ==
    /\ \A k \in DispatchedReplies :
          /\ Cardinality({p \in Positions(trace, IsResolved) :
                             trace[p].id = outbox[k].id}) = 1
          /\ \A p \in Positions(trace, IsResolved) :
                trace[p].id = outbox[k].id => trace[p].value = outbox[k].result
    /\ \A p \in Positions(trace, IsResolved) :
          /\ \E k \in DispatchedReplies : outbox[k].id = trace[p].id
          /\ AnswersRequest(rpcSent[trace[p].id], trace[p].value)
          /\ promises[trace[p].id].settled = <<trace[p].value>>

\* C1 witness: requests 2 and 3 were outstanding together and request 3 was
\* answered first; every caller is resolved.
C1_Witness ==
    LET resolved == SelectSeq(trace, IsResolved)
    IN /\ Len(resolved) = 3
       /\ resolved[2].id = 3 /\ resolved[3].id = 2
       /\ resolved[2].value # resolved[3].value


\* The number a digit character stands for, and the number a digit string
\* stands for.
DigitValue(c) == CHOOSE d \in 0..9 : DigitChars[d + 1] = c

RECURSIVE ParseNumber(_)
ParseNumber(digits) ==
    IF digits = <<>> THEN 0
    ELSE 10 * ParseNumber(SubSeq(digits, 1, Len(digits) - 1))
         + DigitValue(digits[Len(digits)])

\* The sequence number embedded in an ObjectId: the field between its last two
\* "#" characters.
SequenceNumber(objectId) ==
    LET body == SubSeq(objectId, 1, Len(objectId) - 1)
        hashes == {i \in DOMAIN body : body[i] = "#"}
        last == CHOOSE i \in hashes : \A j \in hashes : j <= i
    IN ParseNumber(SubSeq(body, last + 1, Len(body)))

\* C2: every ObjectId the server mints differs from all minted before it, with
\* a strictly greater embedded sequence number, across create and lookup and
\* whether or not earlier objects were disposed; registry keys are minted ids.
C2_ObjectIdUnique ==
    /\ \A i, j \in DOMAIN minted :
          i < j => /\ minted[i] # minted[j]
                   /\ SequenceNumber(minted[i]) < SequenceNumber(minted[j])
    /\ DOMAIN objects_ \subseteq Range(minted)

\* C2 witness: a create id was minted and disposed, and a lookup id was minted
\* after the disposal.
C2_Witness ==
    /\ Len(minted) = 2
    /\ minted[1][1] = "c" /\ minted[2][1] = "l"
    /\ DOMAIN objects_ = {minted[2]}
    /\ \E k \in 1..handled : Has(rpcSent[k], "dispose") /\ rpcSent[k].objectId = minted[1]
                             /\ \E n \in (k + 1)..handled : Has(rpcSent[n], "lookup")

IsDispose(m) == Has(m, "dispose")
IsInvoke(m) == ~Has(m, "create") /\ ~Has(m, "lookup") /\ ~Has(m, "dispose")

\* The inbound messages onMessage_ has taken so far (all of a synchronous
\* handler's sends are in the outbox by then).
Handled == 1..handled

\* C3 (as claimed): an invoke message handled after the dispose message for
\* its ObjectId is answered with a (failed) response carrying its request id.
C3_InvokeAfterDisposeAnswered ==
    \A k \in Handled :
        (/\ IsInvoke(rpcSent[k])
         /\ \E j \in 1..(k - 1) : /\ IsDispose(rpcSent[j])
                                  /\ rpcSent[j].objectId = rpcSent[k].objectId)
        => RepliesTo(rpcSent[k].id) # {}

\* C4 (as claimed): a create naming no exposed factory, and a lookup naming no
\* exposed service, is answered with a (failed) response carrying its request id.
C4_UnknownNameAnswered ==
    \A k \in Handled :
        (\/ Has(rpcSent[k], "create") /\ rpcSent[k].create \notin factories_
         \/ Has(rpcSent[k], "lookup") /\ rpcSent[k].lookup \notin DOMAIN services_)
        => RepliesTo(rpcSent[k].id) # {}

\* C5 (as claimed): when the invoked host method throws, or the promise it
\* returned rejects, a (failed) response carrying the request id is sent.
C5_MethodFailureAnswered ==
    \A r \in rejected :
        r.error = "MethodError" => RepliesTo(r.id) # {}

\* onMessage_ takes a dispose message in this step.
DisposeHandled ==
    /\ handled < Len(rpcSent)
    /\ IsDispose(rpcSent[handled + 1])
    /\ handled' = handled + 1

\* C9: handling a dispose message raises no error, sends nothing, leaves the
\* id counter and every other registered object as they were, and leaves the
\* ObjectId unregistered; for an ObjectId that is not (or no longer) registered
\* the registry is unchanged, so a second dispose changes nothing.
C9_DisposeIdempotent ==
    [][DisposeHandled =>
         LET o == rpcSent[handled + 1].objectId
         IN /\ rejected' = rejected
            /\ outbox' = outbox
            /\ lastObjectId_' = lastObjectId_ /\ minted' = minted
            /\ heap' = heap /\ running' = running
            /\ o \notin DOMAIN objects_'
            /\ DOMAIN objects_' = DOMAIN objects_ \ {o}
            /\ \A other \in DOMAIN objects_' : objects_'[other] = objects_[other]
            /\ (o \notin DOMAIN objects_ => objects_' = objects_)]_vars

\* C9 witness: two dispose messages for one ObjectId have been handled.
C9_Witness ==
    \E j, k \in Handled :
        /\ j < k
        /\ IsDispose(rpcSent[j]) /\ IsDispose(rpcSent[k])
        /\ rpcSent[j].objectId = rpcSent[k].objectId

\* ------------------------------------------------------ event properties
IsEvent(e) == e.type = "event"
IsListener(e) == e.type = "listener"

\* The listener invocations made for the event message at outbox position k.
Block(k) == SelectSeq(trace, LAMBDA e : IsListener(e) /\ e.message = k)

\* The on(event, handler) calls made on proxy objectId before trace position
\* p, in the order they were made.
RegisteredBefore(objectId, event, p) ==
    SelectSeq(SubSeq(trace, 1, p - 1),
              LAMBDA e : e.type = "on" /\ e.objectId = objectId /\ e.event = event)

\* emit_ has left its loop for the event message at outbox position k.
FanoutComplete(k) == ~(fanout # <<>> /\ fanout[1].message = k)

\* C6: for an event message {objectId, method: E, args: A} that reached
\* dispatchMessage when K calls on(E, ...) had been made on the proxy of objectId
\* (no proxy is disposed under SpecEvents): once the fan-out is over at least K
\* listeners were invoked; the j-th invocation is of the j-th registered
\* handler, so the first K are the K registrations, each once, in registration
\* order; every invocation carries objectId, E and A; and nothing registered
\* for another event or on another proxy is invoked.
C6_FanOut ==
    \A p \in Positions(trace, IsEvent) :
        LET k == trace[p].message
            m == outbox[k]
            registered == RegisteredBefore(m.objectId, m.method, p)
            everRegistered == RegisteredBefore(m.objectId, m.method, Len(trace) + 1)
            invoked == Block(k)
        IN /\ FanoutComplete(k) => Len(invoked) >= Len(registered)
           /\ Len(invoked) <= Len(everRegistered)
           /\ \A j \in DOMAIN invoked :
                 /\ invoked[j].handler = everRegistered[j].handler
                 /\ invoked[j].objectId = m.objectId
                 /\ invoked[j].event = m.method
                 /\ invoked[j].args = m.args

\* C6 witness: an emission of "changed" found two registrations on the first
\* proxy, a listener for "other" was registered too, and the fan-out invoked
\* exactly the two, with the emitted count.
C6_Witness ==
    \E p \in Positions(trace, IsEvent) :
        LET k == trace[p].message
            m == outbox[k]
        IN /\ m.objectId = FirstProxy /\ m.method = "changed"
           /\ Len(RegisteredBefore(FirstProxy, "changed", p)) = 2
           /\ Len(RegisteredBefore(FirstProxy, "other", p)) = 1
           /\ FanoutComplete(k)
           /\ Len(Block(k)) = 2
           /\ Block(k)[1].args = m.args /\ Block(k)[2].args = m.args

SameListener(e, f) ==
    e.objectId = f.objectId /\ e.event = f.event /\ e.handler = f.handler

\* C7 (as claimed): a handler invoked for event E on a proxy has not been
\* removed with off(E, handler) on that proxy since it was last registered:
\* between any earlier off and the invocation lies an on of the same handler.
C7_RemovedNotInvoked ==
    \A q \in Positions(trace, IsListener) :
        \A p \in 1..(q - 1) :
            (trace[p].type = "off" /\ SameListener(trace[p], trace[q]))
            => \E r \in (p + 1)..(q - 1) :
                  trace[r].type = "on" /\ SameListener(trace[r], trace[q])

\* C8 (as claimed): a fan-out invokes no more listeners than were registered
\* for the event when its message reached dispatchMessage; a listener added
\* while the loop runs is not invoked by that loop.
C8_AddedNotInvoked ==
    \A p \in Positions(trace, IsEvent) :
        LET m == outbox[trace[p].message]
        IN Len(Block(trace[p].message)) <= Len(RegisteredBefore(m.objectId, m.method, p))


\* Request id is a call of a stub whose host method emits "changed" with the
\* count it returns.
EmittingCall(id) ==
    IsInvoke(rpcSent[id]) /\ rpcSent[id].method \in {"increment", "slow"}

ResolvedCalls == {q \in Positions(trace, IsResolved) : EmittingCall(trace[q].id)}

\* Where in the trace the event emitted by the call resolved at q arrived: the
\* event message on the call's ObjectId that carries the value the call
\* returned.
EventsOf(q) ==
    {p \in Positions(trace, IsEvent) :
        outbox[trace[p].message] = [objectId |-> rpcSent[trace[q].id].objectId,
                                    method |-> "changed",
                                    args |-> <<trace[q].value.number>>]}

\* How often handler h was registered for "changed" on objectId before trace
\* position p.
TimesRegistered(objectId, h, p) ==
    Len(SelectSeq(RegisteredBefore(objectId, "changed", p), LAMBDA e : e.handler = h))

\* The call resolved at trace position q had its event delivered exactly once,
\* before q, and each handler registered before the event arrived was invoked
\* for it, with the value of the call, before q: as often as it was registered
\* then, and no more often than it was registered by the time of q.
EventBeforeResolution(q) ==
    LET o == rpcSent[trace[q].id].objectId
    IN /\ Cardinality(EventsOf(q)) = 1
       /\ \A p \in EventsOf(q) :
             /\ p < q
             /\ \A h \in Handlers :
                   LET calls == {s \in (p + 1)..(q - 1) :
                                    /\ IsListener(trace[s])
                                    /\ trace[s].message = trace[p].message
                                    /\ trace[s].handler = h
                                    /\ trace[s].args = <<trace[q].value.number>>}
                   IN /\ Cardinality(calls) >= TimesRegistered(o, h, p)
                      /\ Cardinality(calls) <= TimesRegistered(o, h, q)

\* Of two resolved calls of one method among `methods` on one proxy, the event
\* of the call issued first arrives first.
EventsInCallOrder(methods) ==
    \A q1, q2 \in ResolvedCalls :
        (/\ trace[q1].id < trace[q2].id
         /\ rpcSent[trace[q1].id].objectId = rpcSent[trace[q2].id].objectId
         /\ rpcSent[trace[q1].id].method = rpcSent[trace[q2].id].method
         /\ rpcSent[trace[q1].id].method \in methods)
        => \A p1 \in EventsOf(q1), p2 \in EventsOf(q2) : p1 < p2

\* C10 (as claimed): for every host method that emits during its invocation,
\* each call's event reaches the listeners registered before it, once, with the
\* value of that call and before the call resolves, and the events of two calls
\* of the method on one proxy arrive in call order.
C10_EventOrderAsClaimed ==
    /\ \A q \in ResolvedCalls : EventBeforeResolution(q)
    /\ EventsInCallOrder({"increment", "slow"})

\* C10 (amended): each call's event reaches the listeners registered before it,
\* once, with the value of that call and before the call resolves; the events
\* of two calls arrive in call order when the method emits before it returns
\* (increment), not when it emits after awaiting (slow).
C10_EventOrder ==
    /\ \A q \in ResolvedCalls : EventBeforeResolution(q)
    /\ EventsInCallOrder({"increment"})

\* C10 witness: h1 was registered once on the first proxy, then increment()
\* was called twice (requests 3 and 4); h1 ran with 1, call 3 resolved to 1,
\* h1 ran with 2, call 4 resolved to 2.
C10_Witness ==
    LET seen == SelectSeq(trace, LAMBDA e : IsListener(e) \/ (IsResolved(e) /\ e.id > 2))
    IN /\ Len(seen) = 4
       /\ Len(rpcSent) >= 4
       /\ TimesRegistered(FirstProxy, "h1", 4) = 1
       /\ TimesRegistered(FirstProxy, "h1", Len(trace) + 1) = 1
       /\ rpcSent[3].method = "increment" /\ rpcSent[4].method = "increment"
       /\ rpcSent[3].objectId = FirstProxy /\ rpcSent[4].objectId = FirstProxy
       /\ IsListener(seen[1]) /\ seen[1].handler = "h1" /\ seen[1].args = <<1>>
       /\ IsResolved(seen[2]) /\ seen[2].id = 3 /\ seen[2].value = Num(1)
       /\ IsListener(seen[3]) /\ seen[3].handler = "h1" /\ seen[3].args = <<2>>
       /\ IsResolved(seen[4]) /\ seen[4].id = 4 /\ seen[4].value = Num(2)

\* ------------------------------------------------- pending-call table
\* C11 (as claimed): request ids are strictly increasing and never reused, and
\* the entry of an id is gone from callbacks_ once the response with that id
\* has been dispatched.
C11_PendingTableRemoved ==
    /\ \A i, j \in DOMAIN rpcSent : i < j => rpcSent[i].id < rpcSent[j].id
    /\ \A k \in DispatchedReplies : outbox[k].id \notin callbacks_

\* ---------------------------------------------------- forwarding hook
\* The messages passed to Server.sendMessage_ in this step.
NewMessages == SubSeq(outbox', Len(outbox) + 1, Len(outbox'))

\* Host instance x calls its emit in this step: host code emits on the service
\* object, or a call of increment or slow on x reaches its this.emit.
EmittedOn(x) ==
    \/ x = SvcObject /\ hostEmits' = hostEmits + 1
    \/ heap'[x].count = heap[x].count + 1

\* The event messages of this step carry ObjectId o.
EventSentFor(o) ==
    \E i \in DOMAIN NewMessages : ~IsReply(NewMessages[i]) /\ NewMessages[i].objectId = o

\* C12 (as claimed): whenever a host instance calls emit, an event message is
\* sent for every ObjectId then registered for that instance, also when several
\* ObjectIds were minted for one service instance.
C12_StandingHook ==
    [][\A x \in DOMAIN heap :
          EmittedOn(x) => \A o \in DOMAIN objects_ : objects_[o] = x => EventSentFor(o)]_vars

\* -------------------------------------------------- method-set fidelity
\* Page code calls a stub in this step: the one message passed to rpcSend is an
\* invoke message with the next id, naming a stub of a proxy, and its ObjectId.
StubSendsOneInvoke ==
    (lastId_' = lastId_ + 1 /\ IsInvoke(rpcSent'[Len(rpcSent')]))
    => LET m == rpcSent'[Len(rpcSent')]
       IN /\ rpcSent' = Append(rpcSent, m)
          /\ DOMAIN m = {"id", "method", "objectId", "args"}
          /\ m.id = lastId_'
          /\ m.objectId \in DOMAIN proxies
          /\ m.method \in proxies[m.objectId].stubs
          /\ m.args \in ArgsFor(m.method)

\* The reply this step sends last.
LastSent == outbox'[Len(outbox')]

\* onMessage_ takes an invoke message for a registered ObjectId in this step:
\* the method runs on the instance registered under that ObjectId and on no
\* other (increment counts on it, echo gets the arguments sent, an asynchronous
\* method starts on it), and what it returns is sent as the result under the
\* request id.
InvokeReachesInstance ==
    (/\ handled' = handled + 1
     /\ IsInvoke(rpcSent[handled + 1])
     /\ rpcSent[handled + 1].objectId \in DOMAIN objects_
     /\ objects_[rpcSent[handled + 1].objectId] # NoObject)
    => LET m == rpcSent[handled + 1]
           x == objects_[m.objectId]
       IN /\ m.method = "increment" =>
                /\ heap' = [heap EXCEPT ![x].count = @ + 1]
                /\ Len(outbox') > Len(outbox)
                /\ LastSent = [id |-> m.id, objectId |-> m.objectId,
                               result |-> Num(heap'[x].count)]
          /\ m.method = "echo" =>
                /\ heap' = heap
                /\ outbox' = Append(outbox, [id |-> m.id, objectId |-> m.objectId,
                                             result |-> Num(m.args[1])])
          /\ m.method \in AsyncMethods =>
                /\ heap' = heap
                /\ \E call \in running' \ running :
                      call.id = m.id /\ call.object = x /\ call.method = m.method

\* The promise of slow() settles in this step: the instance it was started on
\* counts, and the count is sent as the result under the request id.
ResumeReachesInstance ==
    \A call \in running \ running' :
        call.method = "slow" =>
            /\ heap' = [heap EXCEPT ![call.object].count = @ + 1]
            /\ Len(outbox') > Len(outbox)
            /\ LastSent = [id |-> call.id, objectId |-> call.objectId,
                           result |-> Num(heap'[call.object].count)]

\* The caller of a stub is resolved with the result of the one reply to it.
CallerGetsResult ==
    \A p \in Positions(trace, IsResolved) :
        IsInvoke(rpcSent[trace[p].id]) =>
            /\ Cardinality(RepliesTo(trace[p].id)) = 1
            /\ \A k \in RepliesTo(trace[p].id) : trace[p].value = outbox[k].result

CallReachesMethod ==
    StubSendsOneInvoke /\ InvokeReachesInstance /\ ResumeReachesInstance

\* C13 (as claimed): a proxy has one stub per name in the method list of the
\* reply; a stub call sends one invoke message, runs that method with those
\* arguments on the instance registered under the proxy's ObjectId and on no
\* other, and resolves the caller with its result.
C13_MethodSetAsClaimed ==
    /\ [](\A o \in DOMAIN proxies : proxies[o].stubs = Range(proxies[o].methods))
    /\ [][CallReachesMethod]_vars
    /\ []CallerGetsResult

\* C13 (amended): a proxy has one stub per name in the method list other than
\* "dispose"; a stub call sends one invoke message, runs that method with those
\* arguments on the instance registered under the proxy's ObjectId and on no
\* other, and resolves the caller with its result.
C13_MethodSet ==
    /\ [](\A o \in DOMAIN proxies :
             proxies[o].stubs = Range(proxies[o].methods) \ {"dispose"})
    /\ [][CallReachesMethod]_vars
    /\ []CallerGetsResult

\* C13 witness: two counters are registered, increment was called through the
\* proxy of the second and resolved to 1, and the first has not counted.
C13_Witness ==
    /\ Len(minted) = 2 /\ Len(rpcSent) = 3
    /\ DOMAIN objects_ = {minted[1], minted[2]}
    /\ rpcSent[3] = [id |-> 3, method |-> "increment", objectId |-> minted[2], args |-> <<>>]
    /\ objects_[minted[1]] # NoObject /\ objects_[minted[2]] # NoObject
    /\ heap[objects_[minted[1]]].count = 0
    /\ heap[objects_[minted[2]]].count = 1
    /\ promises[3].settled = <<Num(1)>>

\* The case the amendment of C13 is about: the proxy of the looked-up service, whose
\* method list names dispose, has stubs for echo and failLater only.
DisposeNotStubbed ==
    \E o \in DOMAIN proxies :
        /\ "dispose" \in Range(proxies[o].methods)
        /\ proxies[o].stubs = {"echo", "failLater"}

\* ------------------------------------------------------ proxy disposal
\* Page code calls proxy.dispose() in this step: a dispose message is passed to
\* rpcSend.
DisposeCalled ==
    /\ Len(rpcSent') = Len(rpcSent) + 1
    /\ IsDispose(rpcSent'[Len(rpcSent')])

\* In the step of proxy.dispose() the message is sent and the proxy's entry
\* leaves the client registry, with nothing received in between; the other
\* entries stay.
DisposeRemovesAtOnce ==
    DisposeCalled =>
        LET o == rpcSent'[Len(rpcSent')].objectId
        IN /\ clientObjects_' = clientObjects_ \ {o}
           /\ dispatched' = dispatched /\ handled' = handled
           /\ proxies' = proxies

\* When the host takes the dispose message the ObjectId leaves its registry,
\* the other entries stay, and nothing is sent.
HostRemovesSilently ==
    DisposeHandled =>
        LET o == rpcSent[handled + 1].objectId
        IN /\ DOMAIN objects_' = DOMAIN objects_ \ {o}
           /\ \A other \in DOMAIN objects_' : objects_'[other] = objects_[other]
           /\ outbox' = outbox
           /\ clientObjects_' = clientObjects_

\* Once dispose() was called the client holds no entry for the ObjectId, and
\* once the message was handled the host holds none either.
DisposedOnBothSides ==
    \A k \in DOMAIN rpcSent :
        IsDispose(rpcSent[k]) =>
            /\ rpcSent[k].objectId \notin clientObjects_
            /\ k <= handled => rpcSent[k].objectId \notin DOMAIN objects_

\* C14: proxy.dispose() removes the proxy's entry from the client registry in
\* the step in which it sends the dispose message, without waiting; the host,
\* handling the message, removes its entry and sends nothing; afterwards
\* neither side holds an entry for the ObjectId and all others are untouched.
C14_DisposeLifecycle ==
    /\ [][DisposeRemovesAtOnce /\ HostRemovesSilently]_vars
    /\ []DisposedOnBothSides

\* C14 witness: two objects were registered and wrapped, dispose() was called
\* on the proxy of one and the message handled; the other is held on both
\* sides.
C14_Witness ==
    \E k \in Handled :
        /\ IsDispose(rpcSent[k])
        /\ rpcSent[k].objectId \in Range(minted)
        /\ \E other \in DOMAIN objects_ \cap clientObjects_ : other # rpcSent[k].objectId

\* The requests page code sent that are not dispose messages.
Requests == {k \in DOMAIN rpcSent : ~IsDispose(rpcSent[k])}

\* C15 (as claimed): a dispose message has the fields dispose and objectId and
\* no id; it consumes no request id, so the ids handed out are as many as the
\* other requests; and it adds no entry to the pending-call table.
C15_DisposeUncorrelated ==
    /\ \A k \in DOMAIN rpcSent :
          IsDispose(rpcSent[k]) => DOMAIN rpcSent[k] = {"dispose", "objectId"}
    /\ lastId_ = Cardinality(Requests)
    /\ callbacks_ \subseteq {rpcSent[k].id : k \in Requests}

\* ---------------------------------------------------- response liveness
\* The host methods that complete: they return, or the promise they return is
\* fulfilled.
Completes(method) == method \in {"increment", "echo", "slow"}

\* Request id has been sent and is one the claim speaks of: a create of an
\* exposed factory, a lookup of an exposed service, or a call of a method that
\* completes which the server is about to take while its ObjectId is registered.
Answerable(id) ==
    /\ id <= Len(rpcSent)
    /\ LET m == rpcSent[id]
       IN IF Has(m, "create") THEN m.create \in factories_
          ELSE IF Has(m, "lookup") THEN m.lookup \in DOMAIN services_
          ELSE IF IsDispose(m) THEN FALSE
          ELSE /\ handled = id - 1
               /\ Get(objects_, m.objectId) # NoObject
               /\ Completes(m.method)

\* One response with the id was sent and the caller's promise is resolved.
Answered(id) ==
    /\ id <= Len(rpcSent)
    /\ Cardinality(RepliesTo(id)) = 1
    /\ promises[id].settled # <<>>

\* C16: every create of an exposed factory, lookup of an exposed service and
\* call on a registered ObjectId of a method that completes is eventually
\* answered by one response with its id and its caller resolved, and no request
\* is ever answered twice.
C16_ResponseLiveness ==
    /\ \A id \in 1..MaxId : Answerable(id) ~> Answered(id)
    /\ [](\A id \in DOMAIN rpcSent : Cardinality(RepliesTo(id)) <= 1)

\* C16 witness: slow() (request 2) and increment() (request 3) were outstanding
\* together on one object; increment was answered first, with 1, and slow
\* later, with 2, and both callers are resolved.
C16_Witness ==
    /\ Len(rpcSent) = 3
    /\ IsInvoke(rpcSent[2]) /\ rpcSent[2].method = "slow"
    /\ IsInvoke(rpcSent[3]) /\ rpcSent[3].method = "increment"
    /\ rpcSent[2].objectId = rpcSent[3].objectId
    /\ promises[2].settled = <<Num(2)>>
    /\ promises[3].settled = <<Num(1)>>

\* -------------------------------------------------- registry consistency
\* The ObjectIds of successful create and lookup requests: those the server
\* answered with a descriptor.
SuccessfullyMinted ==
    {outbox[k].result.objectId :
        k \in {j \in DOMAIN outbox : IsReply(outbox[j]) /\ Has(outbox[j].result, "methods")}}

\* The ObjectIds of the dispose messages handled so far.
DisposedIds == {rpcSent[k].objectId : k \in {j \in Handled : IsDispose(rpcSent[j])}}

\* The instance registered under objectId is live: an instance its factory
\* made, or the service object exposed under the name it was looked up by.
LiveInstance(objectId) ==
    LET x == objects_[objectId]
    IN /\ x \in DOMAIN heap
       /\ \/ objectId[1] = "c" /\ x # SvcObject /\ heap[x].class = "Counter"
          \/ objectId[1] = "l" /\ \E name \in DOMAIN services_ :
                                     /\ StartsWith(objectId,
                                           <<"l", "o", "o", "k", "u", "p", "#">> \o name \o <<"#">>)
                                     /\ x = services_[name]

\* C17 (as claimed): in every reachable state, also while awaited method
\* bodies are running, the keys of the host registry are the ObjectIds minted
\* by successful create and lookup requests less those disposed, and every key
\* maps to a live instance.
C17_RegistryConsistent ==
    /\ DOMAIN objects_ = SuccessfullyMinted \ DisposedIds
    /\ \A objectId \in DOMAIN objects_ : LiveInstance(objectId)

\* ------------------------------------------------- failed create/lookup
\* onMessage_ takes, in this step, a create naming no exposed factory or a
\* lookup naming no exposed service.
UnknownNameHandled ==
    /\ handled < Len(rpcSent)
    /\ handled' = handled + 1
    /\ \/ Has(rpcSent[handled + 1], "create") /\ rpcSent[handled + 1].create \notin factories_
       \/ Has(rpcSent[handled + 1], "lookup")
            /\ rpcSent[handled + 1].lookup \notin DOMAIN services_

\* C18 (as claimed): handling a create of an unknown factory or a lookup of an
\* unknown service does not advance the ObjectId counter, adds no registry
\* entry and installs no emit hook on any object.
C18_FailedRequestNoChange ==
    [][UnknownNameHandled =>
          /\ lastObjectId_' = lastObjectId_
          /\ objects_' = objects_
          /\ heap' = heap]_vars

\* ------------------------------------------- event racing a disposal
\* dispatchMessage takes, in this step, an event message whose ObjectId has no
\* proxy in the client registry.
OrphanEventDispatched ==
    /\ dispatched < Len(outbox)
    /\ dispatched' = dispatched + 1
    /\ ~IsReply(outbox[dispatched + 1])
    /\ outbox[dispatched + 1].objectId \notin clientObjects_

\* C19 (as claimed): an event message for an ObjectId with no proxy in the
\* client registry is dropped: no error is raised, no listener is invoked, and
\* the proxy registry and the pending-call table stay as they were.
C19_OrphanEventDropped ==
    [][OrphanEventDispatched =>
          /\ thrown' = thrown
          /\ fanout' = <<>>
          /\ clientObjects_' = clientObjects_ /\ proxies' = proxies
          /\ callbacks_' = callbacks_]_vars

\* --------------------------------------------- forwarding after disposal
\* C20 (as claimed): once the host has handled the dispose message for an
\* ObjectId, no emit on the instance that was registered under it sends an
\* event message carrying that ObjectId.
C20_ForwardingStops ==
    [][\A o \in DisposedIds : ~EventSentFor(o)]_vars

====
